---- MODULE Spec2Model ----
(***************************************************************************)
(* Temporal-TV regularised NLCG reconstruction (src/cs_recon/recon.py):    *)
(* the class-based solver TotalVariationReconNLCG (run, _line_search and   *)
(* its helpers) and the function-based solver TotalVariationRecon_NLCG     *)
(* (line_search, temporal_tv_update, ...).                                 *)
(*                                                                         *)
(* Numbers.  Pixels are real integers, one pixel per frame.  A step size   *)
(* is kept exactly as the pair of exponents [ea, eb] of                    *)
(*      StepInit * 1.3^ea * 0.8^eb,                                        *)
(* gradients and directions are exact rational vectors, costs are kept in  *)
(* units of 1/img.size.  The measurement operator (sigpy NUFFT, external)  *)
(* is either the identity, where everything is computed, or generic,       *)
(* where the values it decides are drawn from small sets, one value per    *)
(* image (the functions are pure).                                         *)
(***************************************************************************)
EXTENDS Integers, Sequences, FiniteSets, TLC

VARIABLES
    variant,      \* "class": TotalVariationReconNLCG.run, "func": TotalVariationRecon_NLCG
    op,           \* measurement operator: "identity" or "generic"
    max_iter,     \* maximum iteration number
    lambda_t,     \* regularisation parameter
    y,            \* the weighted k-space data (frames, identity operator only)
    img,          \* the accepted image [base, ver]
    step_size,    \* the solver's step size [ea, eb]
    iter,         \* loop index of the solver
    pc,           \* position in the code
    f_new,        \* class f_new / func update_term: gradient, then direction
    f_old,        \* class f_old / func update_old
    f2_new,       \* class f2_new
    f2_old,       \* class f2_old
    fnorm_t,      \* fidelity cost of img in this iteration
    tnorm_t,      \* temporal cost of img in this iteration
    cost_t,       \* total cost of img in this iteration
    fnorm,        \* trace of fidelity costs
    tnorm,        \* trace of temporal costs
    cost,         \* trace of total costs
    ret,          \* the returned tuple
    ls,           \* the frame of the running line search
    world,        \* what the generic operator decides for the current image
    hist,         \* history: gradients and directions of the iterations, image writes
    tv            \* frame of a direct call of the temporal gradient

vars == <<variant, op, max_iter, lambda_t, y, img, step_size, iter, pc, f_new, f_old,
          f2_new, f2_old, fnorm_t, tnorm_t, cost_t, fnorm, tnorm, cost, ret, ls,
          world, hist, tv>>

(***************************************************************************)
(* Bounds of the model.                                                    *)
(***************************************************************************)
MaxIter == 3
MaxIterIdentity == 5
MaxCost == 2
MaxLsCost == 3
MaxLambda == 1
MaxFrames == 4
MaxPix == 1

(***************************************************************************)
(* Program constants.                                                      *)
(***************************************************************************)
StepInit == 2
LsMaxIter == 15

(***************************************************************************)
(* Integer helpers.                                                        *)
(***************************************************************************)
Abs(n) == IF n < 0 THEN -n ELSE n

Sign(n) == IF n > 0 THEN 1 ELSE IF n < 0 THEN -1 ELSE 0

RECURSIVE Gcd(_, _)
Gcd(a, b) == IF b = 0 THEN Abs(a) ELSE Gcd(b, a % b)

RECURSIVE SumSeq(_)
SumSeq(s) == IF s = <<>> THEN 0 ELSE Head(s) + SumSeq(Tail(s))

RECURSIVE GcdSeq(_)
GcdSeq(s) == IF s = <<>> THEN 0 ELSE Gcd(Head(s), GcdSeq(Tail(s)))

(***************************************************************************)
(* xp.diff(img, n=1, axis=0): the forward difference along the frames.     *)
(***************************************************************************)
Diff(a) == [k \in 1..(Len(a) - 1) |-> a[k + 1] - a[k]]

(***************************************************************************)
(* temp_a / xp.sqrt(abs(temp_a) ** 2 + eps) on an integer difference d:    *)
(* 0 for d = 0; for |d| >= 1 the float64 quotient d / sqrt(d*d + 2^-52)    *)
(* rounds to d/|d|.                                                        *)
(***************************************************************************)
Normalize(d) == Sign(d)

NormalizedDiff(a) == [k \in 1..(Len(a) - 1) |-> Normalize(a[k + 1] - a[k])]

(***************************************************************************)
(* Python slice assignment ttv[1:-1] = b on a sequence of F entries        *)
(* (1-based here): entries 2..F-1 take b[1..F-2].                          *)
(***************************************************************************)
AssignInner(t, b) == [k \in 1..Len(t) |-> IF 1 < k /\ k < Len(t) THEN b[k - 1] ELSE t[k]]

Zeros(n) == [k \in 1..n |-> 0]

(***************************************************************************)
(* Not the code: a periodic difference, whose first and last entries wrap  *)
(* around.  C5 tells it from lines 130-133.                                *)
(***************************************************************************)
AssembleFdWrap(n, nd) ==
    [k \in 1..n |-> nd[IF k <= Len(nd) THEN k ELSE 1] - nd[IF k = 1 THEN Len(nd) ELSE k - 1]]

(***************************************************************************)
(* Lines 130-133 of _update_temporal_fd: ttv_update is a zero array whose  *)
(* first entry, inner entries and last entry are assigned in that order.   *)
(***************************************************************************)
AssembleFd(n, nd) ==
    LET t0 == Zeros(n)
        t1 == [t0 EXCEPT ![1] = nd[1]]
        t2 == AssignInner(t1, Diff(nd))
        t3 == [t2 EXCEPT ![n] = -nd[Len(nd)]]
    IN  t3

(***************************************************************************)
(* TotalVariationReconNLCG._update_temporal_fd (lines 124-135).            *)
(***************************************************************************)
UpdateTemporalFd(a) ==
    LET temp_a == NormalizedDiff(a)
    IN  AssembleFd(Len(a), temp_a)

(***************************************************************************)
(* Lines 294-297 of temporal_tv_update.                                    *)
(***************************************************************************)
AssembleTv(n, nd) ==
    LET t0 == Zeros(n)
        t1 == [t0 EXCEPT ![1] = nd[1]]
        t2 == AssignInner(t1, Diff(nd))
        t3 == [t2 EXCEPT ![n] = -nd[Len(nd)]]
    IN  t3

(***************************************************************************)
(* temporal_tv_update (lines 287-299).                                     *)
(***************************************************************************)
TemporalTvUpdate(a) ==
    LET temp_a == Diff(a)
        temp_b == [k \in 1..Len(temp_a) |-> Normalize(temp_a[k])]
    IN  AssembleTv(Len(a), temp_b)

(***************************************************************************)
(* Exact rationals [num, den] and rational vectors [num, den] with a       *)
(* common denominator, kept in lowest terms.  A quotient whose divisor is  *)
(* eps alone (see Beta) is kept with den = 0.                              *)
(***************************************************************************)
Rat(n, d) ==
    IF n = 0 THEN [num |-> 0, den |-> 1]
    ELSE LET g == Gcd(n, d) IN [num |-> n \div g, den |-> d \div g]

Vec(ns, d) ==
    IF \A k \in 1..Len(ns) : ns[k] = 0 THEN [num |-> Zeros(Len(ns)), den |-> 1]
    ELSE LET g == Gcd(GcdSeq(ns), d)
         IN  [num |-> [k \in 1..Len(ns) |-> ns[k] \div g], den |-> d \div g]

IntVec(s) == [num |-> s, den |-> 1]

IsZeroVec(v) == \A k \in 1..Len(v.num) : v.num[k] = 0

NoVec == [num |-> <<>>, den |-> 1]

NoRat == [num |-> 0, den |-> 1]

(***************************************************************************)
(* xp.vdot(v, v) of a real vector.                                         *)
(***************************************************************************)
Vdot(v) == Rat(SumSeq([k \in 1..Len(v.num) |-> v.num[k] * v.num[k]]), v.den * v.den)

(***************************************************************************)
(* sigpy util.axpy(y, a, x): y += a * x (the product is formed first, so   *)
(* x may be y itself); also update_term + beta * update_old.               *)
(***************************************************************************)
Axpy(yv, a, x) ==
    Vec([k \in 1..Len(yv.num) |-> yv.num[k] * (a.den * x.den) + a.num * x.num[k] * yv.den],
        yv.den * a.den * x.den)

(***************************************************************************)
(* n / (d + xp.finfo(float).eps) (lines 172 and 263-264): eps = 2^-52      *)
(* decides the quotient only when d = 0; it is then kept as num/0, and is  *)
(* 0 when n = 0.  For d > 0 the quotient is n / d.                         *)
(***************************************************************************)
Beta(n, d) == Rat(n.num * d.den, n.den * d.num)

(***************************************************************************)
(* Step sizes [ea, eb] = StepInit * 1.3^ea * 0.8^eb, compared exactly with *)
(* a threshold m * 10^-p through little-endian base-10000 naturals.        *)
(***************************************************************************)
RECURSIVE BigMulC(_, _, _)
BigMulC(b, m, carry) ==
    IF b = <<>> THEN (IF carry = 0 THEN <<>> ELSE <<carry>>)
    ELSE LET v == Head(b) * m + carry
         IN  <<v % 10000>> \o BigMulC(Tail(b), m, v \div 10000)

RECURSIVE BigPow(_, _, _)
BigPow(b, m, n) == IF n = 0 THEN b ELSE BigPow(BigMulC(b, m, 0), m, n - 1)

RECURSIVE BigLessFrom(_, _, _)
BigLessFrom(a, b, k) ==
    IF k = 0 THEN FALSE
    ELSE IF a[k] # b[k] THEN a[k] < b[k]
    ELSE BigLessFrom(a, b, k - 1)

BigLess(a, b) ==
    IF Len(a) # Len(b) THEN Len(a) < Len(b) ELSE BigLessFrom(a, b, Len(a))

StepLess(s, m, p) ==
    BigLess(BigPow(BigPow(BigPow(<<StepInit>>, 13, s.ea), 8, s.eb), 10, p),
            BigPow(<<m>>, 10, s.ea + s.eb))

StepTimesA(s) == [s EXCEPT !.ea = @ + 1]

StepTimesB(s) == [s EXCEPT !.eb = @ + 1]

StepOverA(s) == [s EXCEPT !.ea = @ - 1]

(***************************************************************************)
(* The measurement operator A built in __init__ (lines 94-104) and its     *)
(* adjoint A.H, in the identity instance (one coil of sensitivity 1, a     *)
(* transform that is the identity, density weights 1).                     *)
(***************************************************************************)
Forward(a) == a

Adjoint(k) == k

VecSub(a, b) == [k \in 1..Len(a) |-> a[k] - b[k]]

(***************************************************************************)
(* An image is [base, ver]: ver counts the updates that moved it.  It is   *)
(* known pixel by pixel while the operator is the identity and no update   *)
(* moved it off its integer frames; otherwise, what the operator and the   *)
(* rounding decide about it is in world.                                   *)
(***************************************************************************)
Known(im) == op = "identity" /\ im.ver = 0

Frames(im) == IF Known(im) THEN Len(im.base) ELSE Len(world.f)

(***************************************************************************)
(* _update_fidelity (lines 119-122); the gradient part of fidelity_update  *)
(* (lines 302-323).                                                        *)
(***************************************************************************)
UpdateFidelity(im) ==
    IF Known(im) THEN LET r == VecSub(y, Forward(im.base)) IN IntVec(Adjoint(r))
    ELSE IntVec(world.f)

(***************************************************************************)
(* _calculate_fnorm (lines 138-142); the norm part of fidelity_update      *)
(* (line 317, 323).  In units of 1/img.size.                               *)
(***************************************************************************)
CalculateFnorm(im) ==
    IF Known(im) THEN LET r == VecSub(y, Forward(im.base))
                      IN  SumSeq([k \in 1..Len(r) |-> r[k] * r[k]])
    ELSE world.fn

(***************************************************************************)
(* _calculate_tnorm (lines 144-148) and calculate_tnorm (lines 349-356).   *)
(* In units of 1/img.size.                                                 *)
(***************************************************************************)
CalculateTnorm(im) ==
    IF Known(im) THEN LET dtimg == Diff(im.base)
                      IN  lambda_t * SumSeq([k \in 1..Len(dtimg) |-> Abs(dtimg[k])])
    ELSE world.tn

(***************************************************************************)
(* The temporal gradient of an image (line 163, line 258).                 *)
(***************************************************************************)
TemporalFdOf(im) ==
    IF Known(im) THEN IntVec(UpdateTemporalFd(im.base))
    ELSE IntVec(AssembleFd(Len(world.nd) + 1, world.nd))

TemporalTvOf(im) ==
    IF Known(im) THEN IntVec(TemporalTvUpdate(im.base))
    ELSE IntVec(AssembleTv(Len(world.nd) + 1, world.nd))

(***************************************************************************)
(* Lines 162-163: f_new = fidelity gradient; f_new += lambda_t * temporal. *)
(* Line 257-258: update_term + lambda_t * temporal_tv_update(img).         *)
(***************************************************************************)
CombinedGradientClass(im) == Axpy(UpdateFidelity(im), Rat(lambda_t, 1), TemporalFdOf(im))

CombinedGradientFunc(im) == Axpy(UpdateFidelity(im), Rat(lambda_t, 1), TemporalTvOf(im))

(***************************************************************************)
(* Lines 167-175 of run: the conjugation.  At iter = 0 f_old is f_new      *)
(* itself (the same array), so the axpy adds beta * f_new to f_new.        *)
(***************************************************************************)
ConjugateClass(it, fn, f2n, fo, f2o) ==
    LET f2_old0 == IF it = 0 THEN f2n ELSE f2o
        f_old0  == IF it = 0 THEN fn ELSE fo
        beta    == Beta(f2n, f2_old0)
        f_new1  == Axpy(fn, beta, f_old0)
    IN  [beta |-> beta, f_new |-> f_new1, f2_old |-> f2n, f_old |-> f_new1]

(***************************************************************************)
(* Lines 259-266 of TotalVariationRecon_NLCG: update_old is the conjugated *)
(* update_term of the previous iteration, also in the divisor of beta.     *)
(***************************************************************************)
ConjugateFunc(it, ut, uo) ==
    LET update_old0 == IF it = 0 THEN ut ELSE uo
        beta        == Beta(Vdot(ut), Vdot(update_old0))
        update_term == Axpy(ut, beta, update_old0)
    IN  [beta |-> beta, f_new |-> update_term, f2_old |-> NoRat, f_old |-> update_term]

(***************************************************************************)
(* Not the code: a loop that forgets to count a sub-iteration in which no  *)
(* branch is taken.  C2 tells it from _line_search.                        *)
(***************************************************************************)
LineSearchPassClassStuck(l, c) ==
    IF c > l.cost_old /\ l.flag = FALSE THEN
        [l EXCEPT !.step = StepTimesB(l.step), !.i = @ + 1]
    ELSE IF c < l.cost_old THEN
        [l EXCEPT !.step = StepTimesA(l.step), !.cost_old = c, !.flag = TRUE, !.i = @ + 1]
    ELSE IF c > l.cost_old /\ l.flag = TRUE THEN
        [l EXCEPT !.step = StepOverA(l.step), !.broke = TRUE, !.i = @ + 1]
    ELSE
        l

(***************************************************************************)
(* One pass of the for loop of _line_search (lines 203-217) once the cost  *)
(* c of the candidate is known (cost_new).  l is the frame of the search.  *)
(***************************************************************************)
LineSearchPassClass(l, c) ==
    IF c > l.cost_old /\ l.flag = FALSE THEN
        [l EXCEPT !.step = StepTimesB(l.step), !.i = @ + 1]
    ELSE IF c < l.cost_old THEN
        [l EXCEPT !.step = StepTimesA(l.step), !.cost_old = c, !.flag = TRUE, !.i = @ + 1]
    ELSE IF c > l.cost_old /\ l.flag = TRUE THEN
        [l EXCEPT !.step = StepOverA(l.step), !.broke = TRUE, !.i = @ + 1]
    ELSE
        [l EXCEPT !.i = @ + 1]

(***************************************************************************)
(* Not the code: a bracketing branch that multiplies the step by b instead *)
(* of dividing it by a.  C9 tells it from line_search.                     *)
(***************************************************************************)
LineSearchPassFuncShrink(l, c) ==
    IF c > l.cost_old /\ l.flag = FALSE THEN
        [l EXCEPT !.step = StepTimesB(l.step), !.i = @ + 1]
    ELSE IF c < l.cost_old THEN
        [l EXCEPT !.step = StepTimesA(l.step), !.cost_old = c, !.flag = TRUE, !.i = @ + 1]
    ELSE IF c > l.cost_old /\ l.flag = TRUE THEN
        [l EXCEPT !.step = StepTimesB(l.step), !.broke = TRUE, !.i = @ + 1]
    ELSE
        [l EXCEPT !.i = @ + 1]

(***************************************************************************)
(* One pass of the for loop of line_search (lines 331-344).                *)
(***************************************************************************)
LineSearchPassFunc(l, c) ==
    IF c > l.cost_old /\ l.flag = FALSE THEN
        [l EXCEPT !.step = StepTimesB(l.step), !.i = @ + 1]
    ELSE IF c < l.cost_old THEN
        [l EXCEPT !.step = StepTimesA(l.step), !.cost_old = c, !.flag = TRUE, !.i = @ + 1]
    ELSE IF c > l.cost_old /\ l.flag = TRUE THEN
        [l EXCEPT !.step = StepOverA(l.step), !.broke = TRUE, !.i = @ + 1]
    ELSE
        [l EXCEPT !.i = @ + 1]

(***************************************************************************)
(* Not the code: a threshold of 2e-2.  C10 tells it from line 188.         *)
(***************************************************************************)
StepBelowLoose(s) == StepLess(s, 2, 2)

(***************************************************************************)
(* The stopping thresholds: step_size < 2e-3 (line 188), step_size < 1e-4  *)
(* (line 277).                                                             *)
(***************************************************************************)
StepBelowClass(s) == StepLess(s, 2, 3)

StepBelowFunc(s) == StepLess(s, 1, 4)

(***************************************************************************)
(* What a generic measurement operator may decide for an image of n        *)
(* frames: its fidelity gradient f, the normalised differences nd of its   *)
(* frames, its fidelity cost fn and temporal cost tn.  A zero residual has *)
(* a zero gradient, the temporal cost is lambda_t * sum |d|, and nd is 0   *)
(* exactly where d is.  top is the largest cost, in the model's units, the *)
(* data can produce.  The differences are drawn up to their sign, and as   *)
(* zero when lambda_t = 0 multiplies them away.                            *)
(***************************************************************************)
FidGrads(n) ==
    {[k \in 1..n |-> IF k = 1 THEN g ELSE IF k = n THEN -g ELSE 0] : g \in 0..1}

Worlds(lam, n, top) ==
    {w \in [f : FidGrads(n), nd : [1..(n - 1) -> 0..1], fn : 0..top, tn : 0..top,
            top : {top}] :
        /\ w.fn + w.tn <= top
        /\ (w.fn = 0 => \A k \in 1..n : w.f[k] = 0)
        /\ (lam = 0 => (w.tn = 0 /\ \A k \in 1..(n - 1) : w.nd[k] = 0))
        /\ (lam > 0 => ((w.tn = 0) <=> (\A k \in 1..(n - 1) : w.nd[k] = 0)))}

NoWorld == [f |-> <<>>, nd |-> <<>>, fn |-> 0, tn |-> 0, top |-> MaxCost]

(***************************************************************************)
(* Data whose adjoint reconstruction already minimises the objective:      *)
(* identical frames, or no regularisation.                                 *)
(***************************************************************************)
Consistent(d, lam) == lam = 0 \/ \A k \in 1..Len(d) : d[k] = d[1]

FrameSeqs(lo) == UNION {[1..n -> lo..MaxPix] : n \in 2..MaxFrames}

NoEval == [step |-> [ea |-> -1, eb |-> -1], cost |-> -1]

NoImg == [base |-> <<>>, ver |-> -1]

(***************************************************************************)
(* The frame of a line search: its arguments dir (f_new / update_term),    *)
(* cost_old and step (step_size), its locals flag, i, img_new, cost_new,   *)
(* broke (the break was taken); and its history: the arguments as passed   *)
(* (ref, step0), the number of candidates evaluated, the last candidate    *)
(* evaluated and the last one whose cost was below cost_old.               *)
(***************************************************************************)
LsIdle ==
    [step |-> [ea |-> 0, eb |-> 0], cost_old |-> 0, flag |-> FALSE, i |-> 0,
     broke |-> FALSE, cost_new |-> -1, img_new |-> [of |-> NoImg, step |-> NoEval.step],
     dir |-> NoVec, ref |-> 0, step0 |-> [ea |-> 0, eb |-> 0], evals |-> 0,
     last |-> NoEval, best |-> NoEval]

(***************************************************************************)
(* History of the run: the combined gradient g and the direction p of this *)
(* iteration and of the previous one, beta, the number of writes to img,   *)
(* the direction applied by the last write and the one the search before   *)
(* it was given, and how the loop ended.                                   *)
(***************************************************************************)
HistInit ==
    [g |-> NoVec, g_prev |-> NoVec, p |-> NoVec, p_prev |-> NoVec, beta |-> NoRat,
     writes |-> 0, applied |-> NoVec, searched |-> NoVec, stop |-> "none"]

TvIdle == [pc |-> "idle", fn |-> "none", img |-> <<>>, out |-> <<>>]

(***************************************************************************)
(* The state after construction (__init__, lines 89-117; lines 234-253):   *)
(* x = A.H(ksp), the step size is the initial one, the traces are empty    *)
(* lists (class) or arrays of max_iter zeros (function).                   *)
(***************************************************************************)
InitCommon ==
    /\ variant \in {"class", "func"}
    /\ op \in {"identity", "generic"}
    /\ max_iter \in 1..(IF op = "identity" THEN MaxIterIdentity ELSE MaxIter)
    /\ lambda_t \in 0..MaxLambda
    /\ IF op = "identity"
       THEN /\ y \in {d \in FrameSeqs(0) : Consistent(d, lambda_t)}
            /\ img = [base |-> Adjoint(y), ver |-> 0]
            /\ world = NoWorld
       ELSE /\ y = <<>>
            /\ img = [base |-> <<>>, ver |-> 0]
            /\ world \in Worlds(lambda_t, 2, MaxCost)
    /\ step_size = [ea |-> 0, eb |-> 0]
    /\ iter = 0
    /\ f_new = NoVec /\ f_old = NoVec /\ f2_new = NoRat /\ f2_old = NoRat
    /\ fnorm_t = 0 /\ tnorm_t = 0 /\ cost_t = 0
    /\ fnorm = IF variant = "class" THEN <<>> ELSE Zeros(max_iter)
    /\ tnorm = IF variant = "class" THEN <<>> ELSE Zeros(max_iter)
    /\ cost = IF variant = "class" THEN <<>> ELSE Zeros(max_iter)
    /\ ret = <<>>
    /\ ls = LsIdle
    /\ hist = HistInit

Init ==
    /\ InitCommon
    /\ pc = "grad"
    /\ tv = TvIdle

(***************************************************************************)
(* Lines 162-165 (class) and 257-258 (function): the combined gradient.    *)
(***************************************************************************)
Gradient ==
    /\ pc = "grad"
    /\ IF variant = "class"
       THEN /\ f_new' = CombinedGradientClass(img)
            /\ f2_new' = Vdot(f_new')
            /\ fnorm' = fnorm
       ELSE /\ f_new' = CombinedGradientFunc(img)
            /\ f2_new' = f2_new
            /\ fnorm' = [fnorm EXCEPT ![iter + 1] = CalculateFnorm(img)]
    /\ hist' = [hist EXCEPT !.g = f_new', !.g_prev = hist.g, !.p_prev = hist.p]
    /\ pc' = "conj"
    /\ UNCHANGED <<variant, op, max_iter, lambda_t, y, img, step_size, iter, f_old, f2_old,
                   fnorm_t, tnorm_t, cost_t, tnorm, cost, ret, ls, world, tv>>

(***************************************************************************)
(* Lines 167-175 (class) and 259-266 (function): the conjugate direction.  *)
(***************************************************************************)
Conjugate ==
    /\ pc = "conj"
    /\ LET r == IF variant = "class"
                THEN ConjugateClass(iter, f_new, f2_new, f_old, f2_old)
                ELSE ConjugateFunc(iter, f_new, f_old)
       IN  /\ f_new' = r.f_new
           /\ f_old' = r.f_old
           /\ f2_old' = r.f2_old
           /\ hist' = [hist EXCEPT !.p = r.f_new, !.beta = r.beta]
    /\ pc' = "cost"
    /\ UNCHANGED <<variant, op, max_iter, lambda_t, y, img, step_size, iter, f2_new,
                   fnorm_t, tnorm_t, cost_t, fnorm, tnorm, cost, ret, ls, world, tv>>

(***************************************************************************)
(* Lines 178-180 (class) and 269-270 (function): the cost of the image.    *)
(***************************************************************************)
Cost ==
    /\ pc = "cost"
    /\ IF variant = "class"
       THEN /\ fnorm_t' = CalculateFnorm(img)
            /\ tnorm_t' = CalculateTnorm(img)
            /\ cost_t' = fnorm_t' + tnorm_t'
            /\ UNCHANGED <<tnorm, cost>>
       ELSE /\ tnorm' = [tnorm EXCEPT ![iter + 1] = CalculateTnorm(img)]
            /\ cost' = [cost EXCEPT ![iter + 1] = fnorm[iter + 1] + tnorm'[iter + 1]]
            /\ UNCHANGED <<fnorm_t, tnorm_t, cost_t>>
    /\ pc' = "call"
    /\ UNCHANGED <<variant, op, max_iter, lambda_t, y, img, step_size, iter, f_new, f_old,
                   f2_new, f2_old, fnorm, ret, ls, world, hist, tv>>

(***************************************************************************)
(* The call of the line search (line 182, lines 200-201; line 271, lines   *)
(* 327-330): img, the direction, the reference cost, the step size.        *)
(***************************************************************************)
CallLineSearch ==
    /\ pc = "call"
    /\ LET ref == IF variant = "class" THEN cost_t ELSE cost[iter + 1]
       IN  ls' = [LsIdle EXCEPT !.step = step_size, !.cost_old = ref, !.dir = f_new,
                                !.ref = ref, !.step0 = step_size]
    /\ pc' = "ls"
    /\ UNCHANGED <<variant, op, max_iter, lambda_t, y, img, step_size, iter, f_new, f_old,
                   f2_new, f2_old, fnorm_t, tnorm_t, cost_t, fnorm, tnorm, cost, ret,
                   world, hist, tv>>

(***************************************************************************)
(* The costs the candidate img + step * direction may have: the cost of    *)
(* img when the direction is zero, the cost found before when this very    *)
(* candidate was the last one evaluated, any cost otherwise.               *)
(***************************************************************************)
CandidateCosts(l) ==
    IF IsZeroVec(l.dir) THEN {CalculateFnorm(img) + CalculateTnorm(img)}
    ELSE IF l.last.step = l.step THEN {l.last.cost}
    ELSE 0..world.top

(***************************************************************************)
(* Not the code: a sub-iteration that builds its candidate in img itself.  *)
(* C8 tells it from lines 203-217 and 331-344.                             *)
(***************************************************************************)
LineSearchIterInPlace ==
    /\ pc = "ls"
    /\ ls.i < LsMaxIter
    /\ ~ls.broke
    /\ img' = [img EXCEPT !.ver = @ + 1]
    /\ \E c \in CandidateCosts(ls) :
          LET seen == [step |-> ls.step, cost |-> c]
              l == [ls EXCEPT !.img_new = [of |-> img', step |-> ls.step],
                              !.cost_new = c, !.evals = @ + 1, !.last = seen,
                              !.best = IF c < ls.cost_old THEN seen ELSE @]
          IN  ls' = IF variant = "class" THEN LineSearchPassClass(l, c)
                    ELSE LineSearchPassFunc(l, c)
    /\ UNCHANGED <<variant, op, max_iter, lambda_t, y, step_size, iter, pc, f_new,
                   f_old, f2_new, f2_old, fnorm_t, tnorm_t, cost_t, fnorm, tnorm, cost,
                   ret, world, hist, tv>>

(***************************************************************************)
(* One sub-iteration of the line search (lines 203-217, lines 331-344).    *)
(***************************************************************************)
LineSearchIter ==
    /\ pc = "ls"
    /\ ls.i < LsMaxIter
    /\ ~ls.broke
    /\ \E c \in CandidateCosts(ls) :
          LET seen == [step |-> ls.step, cost |-> c]
              l == [ls EXCEPT !.img_new = [of |-> img, step |-> ls.step],
                              !.cost_new = c, !.evals = @ + 1, !.last = seen,
                              !.best = IF c < ls.cost_old THEN seen ELSE @]
          IN  ls' = IF variant = "class" THEN LineSearchPassClass(l, c)
                    ELSE LineSearchPassFunc(l, c)
    /\ UNCHANGED <<variant, op, max_iter, lambda_t, y, img, step_size, iter, pc, f_new,
                   f_old, f2_new, f2_old, fnorm_t, tnorm_t, cost_t, fnorm, tnorm, cost,
                   ret, world, hist, tv>>

(***************************************************************************)
(* The end of the line search (line 219, line 346) and the assignment of   *)
(* its result to step_size (line 182, line 271).                           *)
(***************************************************************************)
LineSearchReturn ==
    /\ pc = "ls"
    /\ (ls.i >= LsMaxIter \/ ls.broke)
    /\ step_size' = ls.step
    /\ pc' = "update"
    /\ UNCHANGED <<variant, op, max_iter, lambda_t, y, img, iter, f_new, f_old, f2_new,
                   f2_old, fnorm_t, tnorm_t, cost_t, fnorm, tnorm, cost, ret, ls, world,
                   hist, tv>>

(***************************************************************************)
(* The cost of img + step_size * direction after the search: the cost the  *)
(* search found for that step when it evaluated it, any cost otherwise.    *)
(***************************************************************************)
AcceptedCosts ==
    IF step_size = ls.last.step THEN {ls.last.cost}
    ELSE IF step_size = ls.best.step THEN {ls.best.cost}
    ELSE 0..world.top

(***************************************************************************)
(* Line 183: util.axpy(img, step_size, f_old); line 272: img = img +       *)
(* step_size * update_old.  A zero direction leaves the pixels as they     *)
(* are; otherwise the image moves and the operator decides anew.  The      *)
(* frame of the line search is gone.                                       *)
(***************************************************************************)
UpdateImage ==
    /\ pc = "update"
    /\ IF IsZeroVec(f_old)
       THEN UNCHANGED <<img, world>>
       ELSE /\ img' = [img EXCEPT !.ver = @ + 1]
            /\ world' \in {w \in Worlds(lambda_t, Len(f_old.num), world.top) :
                              w.fn + w.tn \in AcceptedCosts}
    /\ hist' = [hist EXCEPT !.writes = @ + 1, !.applied = f_old, !.searched = ls.dir]
    /\ ls' = LsIdle
    /\ pc' = "check"
    /\ UNCHANGED <<variant, op, max_iter, lambda_t, y, step_size, iter, f_new, f_old,
                   f2_new, f2_old, fnorm_t, tnorm_t, cost_t, fnorm, tnorm, cost, ret, tv>>

(***************************************************************************)
(* Lines 188-195 (class): break below the threshold, else append the       *)
(* iteration's costs; lines 277-282 (function): break below the threshold. *)
(* Then the next pass of the for loop, or its end.                         *)
(***************************************************************************)
CheckStep ==
    /\ pc = "check"
    /\ IF variant = "class"
       THEN IF StepBelowClass(step_size)
            THEN /\ pc' = "ret"
                 /\ hist' = [hist EXCEPT !.stop = "step"]
                 /\ UNCHANGED <<fnorm, tnorm, cost, iter>>
            ELSE /\ fnorm' = Append(fnorm, fnorm_t)
                 /\ tnorm' = Append(tnorm, tnorm_t)
                 /\ cost' = Append(cost, cost_t)
                 /\ IF iter + 1 < max_iter
                    THEN iter' = iter + 1 /\ pc' = "grad" /\ hist' = hist
                    ELSE iter' = iter /\ pc' = "ret" /\ hist' = [hist EXCEPT !.stop = "max"]
       ELSE /\ UNCHANGED <<fnorm, tnorm, cost>>
            /\ IF StepBelowFunc(step_size)
               THEN pc' = "ret" /\ iter' = iter /\ hist' = [hist EXCEPT !.stop = "step"]
               ELSE IF iter + 1 < max_iter
                    THEN iter' = iter + 1 /\ pc' = "grad" /\ hist' = hist
                    ELSE iter' = iter /\ pc' = "ret" /\ hist' = [hist EXCEPT !.stop = "max"]
    /\ UNCHANGED <<variant, op, max_iter, lambda_t, y, img, step_size, f_new, f_old,
                   f2_new, f2_old, fnorm_t, tnorm_t, cost_t, ret, ls, world, tv>>

(***************************************************************************)
(* Not the code: slices [0 : iter] in the function.  C4 tells it from      *)
(* line 284.                                                               *)
(***************************************************************************)
ReturnShort ==
    /\ pc = "ret"
    /\ ret' = IF variant = "class"
              THEN [img |-> img, fnorm |-> fnorm, tnorm |-> tnorm, cost |-> cost]
              ELSE [img |-> img, fnorm |-> SubSeq(fnorm, 1, iter),
                    tnorm |-> SubSeq(tnorm, 1, iter), cost |-> SubSeq(cost, 1, iter)]
    /\ pc' = "done"
    /\ UNCHANGED <<variant, op, max_iter, lambda_t, y, img, step_size, iter, f_new, f_old,
                   f2_new, f2_old, fnorm_t, tnorm_t, cost_t, fnorm, tnorm, cost, ls, world,
                   hist, tv>>

(***************************************************************************)
(* Line 197: return img, fnorm, tnorm, cost; line 284: return img and the  *)
(* slices [0 : iter + 1] of the three arrays.                              *)
(***************************************************************************)
Return ==
    /\ pc = "ret"
    /\ ret' = IF variant = "class"
              THEN [img |-> img, fnorm |-> fnorm, tnorm |-> tnorm, cost |-> cost]
              ELSE [img |-> img, fnorm |-> SubSeq(fnorm, 1, iter + 1),
                    tnorm |-> SubSeq(tnorm, 1, iter + 1), cost |-> SubSeq(cost, 1, iter + 1)]
    /\ pc' = "done"
    /\ UNCHANGED <<variant, op, max_iter, lambda_t, y, img, step_size, iter, f_new, f_old,
                   f2_new, f2_old, fnorm_t, tnorm_t, cost_t, fnorm, tnorm, cost, ls, world,
                   hist, tv>>

Next ==
    \/ Gradient
    \/ Conjugate
    \/ Cost
    \/ CallLineSearch
    \/ LineSearchIter
    \/ LineSearchReturn
    \/ UpdateImage
    \/ CheckStep
    \/ Return

Spec == Init /\ [][Next]_vars

(***************************************************************************)
(* A direct call of the line search on drawn arguments: a zero or non-zero *)
(* direction, any reference cost, one of a few step sizes.                 *)
(***************************************************************************)
InitLS ==
    /\ variant \in {"class", "func"}
    /\ op = "generic"
    /\ max_iter = 1
    /\ lambda_t = 0
    /\ y = <<>>
    /\ img = [base |-> <<>>, ver |-> 0]
    /\ world \in {w \in Worlds(0, 2, MaxLsCost) : w.f = <<0, 0>> /\ w.nd = <<0>>}
    /\ step_size \in {[ea |-> 0, eb |-> 0], [ea |-> 1, eb |-> 2]}
    /\ iter = 0
    /\ f_new \in {IntVec(<<0, 0>>), IntVec(<<1, -1>>)}
    /\ f_old = f_new /\ f2_new = NoRat /\ f2_old = NoRat
    /\ fnorm_t = 0 /\ tnorm_t = 0
    /\ cost_t \in 0..MaxLsCost
    /\ fnorm = <<0>> /\ tnorm = <<0>>
    /\ cost = <<cost_t>>
    /\ ret = <<>>
    /\ ls = LsIdle
    /\ hist = HistInit
    /\ pc = "call"
    /\ tv = TvIdle

NextLS ==
    \/ CallLineSearch
    \/ LineSearchIter
    \/ LineSearchReturn

SpecLS == InitLS /\ [][NextLS]_vars

(***************************************************************************)
(* A direct call of the temporal gradient on a drawn image.                *)
(***************************************************************************)
InitTV ==
    /\ variant = "class" /\ op = "identity" /\ max_iter = 1 /\ lambda_t = 0
    /\ y = <<0, 0>>
    /\ img = [base |-> y, ver |-> 0]
    /\ world = NoWorld
    /\ step_size = [ea |-> 0, eb |-> 0]
    /\ iter = 0
    /\ f_new = NoVec /\ f_old = NoVec /\ f2_new = NoRat /\ f2_old = NoRat
    /\ fnorm_t = 0 /\ tnorm_t = 0 /\ cost_t = 0
    /\ fnorm = <<>> /\ tnorm = <<>> /\ cost = <<>>
    /\ ret = <<>>
    /\ ls = LsIdle
    /\ hist = HistInit
    /\ pc = "idle"
    /\ tv \in [pc : {"call"}, fn : {"_update_temporal_fd", "temporal_tv_update"},
               img : FrameSeqs(-MaxPix), out : {<<>>}]

solver == <<variant, op, max_iter, lambda_t, y, img, step_size, iter, pc, f_new, f_old,
            f2_new, f2_old, fnorm_t, tnorm_t, cost_t, fnorm, tnorm, cost, ret, ls,
            world, hist>>

CallUpdateTemporalFd ==
    /\ tv.pc = "call"
    /\ tv.fn = "_update_temporal_fd"
    /\ tv' = [tv EXCEPT !.out = UpdateTemporalFd(tv.img), !.pc = "done"]
    /\ UNCHANGED solver

CallTemporalTvUpdate ==
    /\ tv.pc = "call"
    /\ tv.fn = "temporal_tv_update"
    /\ tv' = [tv EXCEPT !.out = TemporalTvUpdate(tv.img), !.pc = "done"]
    /\ UNCHANGED solver

NextTV ==
    \/ CallUpdateTemporalFd
    \/ CallTemporalTvUpdate

SpecTV == InitTV /\ [][NextTV]_vars

(***************************************************************************)
(* Exact comparison of two step sizes: s < t.                              *)
(***************************************************************************)
StepLt(s, t) ==
    LET Min(m, n) == IF m < n THEN m ELSE n
        ma == Min(s.ea, t.ea)
        mb == Min(s.eb, t.eb)
        mt == Min(s.ea + s.eb, t.ea + t.eb)
    IN  BigLess(BigPow(BigPow(BigPow(<<1>>, 13, s.ea - ma), 8, s.eb - mb),
                       10, t.ea + t.eb - mt),
                BigPow(BigPow(BigPow(<<1>>, 13, t.ea - ma), 8, t.eb - mb),
                       10, s.ea + s.eb - mt))

(***************************************************************************)
(* C1 as stated: in the returned cost trace every entry is at most the     *)
(* entry before it, whatever the line searches met, a search that used up  *)
(* its sub-iterations while only shrinking the step included.              *)
(***************************************************************************)
C1_CostNeverIncreases ==
    pc = "done" => \A n \in 1..(Len(ret.cost) - 1) : ret.cost[n + 1] <= ret.cost[n]

(***************************************************************************)
(* C2: a line search evaluates at most LsMaxIter = 15 candidates and then  *)
(* returns: while it runs, another sub-iteration or the return is          *)
(* possible, and after 15 evaluations only the return is; also when every  *)
(* candidate has the reference cost and no branch changes the step.        *)
(***************************************************************************)
C2_LineSearchBounded ==
    /\ ls.evals <= LsMaxIter
    /\ ls.evals = ls.i
    /\ pc = "ls" => (ENABLED LineSearchIter \/ ENABLED LineSearchReturn)
    /\ (pc = "ls" /\ ls.evals = LsMaxIter) => ~ENABLED LineSearchIter

C2_Witness ==
    /\ pc = "update"
    /\ ls.evals = LsMaxIter
    /\ ~IsZeroVec(ls.dir)
    /\ ls.cost_new = ls.ref
    /\ ls.step = ls.step0
    /\ ~ls.flag

(***************************************************************************)
(* C3 as stated: on data of two identical frames under the identity        *)
(* operator, with max_iter large enough for the three searches the         *)
(* threshold needs, the solver stops by the step size, the accepted step   *)
(* being below 2e-3, in fewer than max_iter iterations, and returns the    *)
(* ground truth.                                                           *)
(***************************************************************************)
C3_ConvergesByStepSize ==
    (pc = "done" /\ op = "identity" /\ Len(y) = 2 /\ y[1] = y[2] /\ max_iter > 3)
        => /\ hist.stop = "step"
           /\ StepBelowClass(step_size)
           /\ hist.writes < max_iter
           /\ ret.img = [base |-> y, ver |-> 0]

(***************************************************************************)
(* C4: the three returned traces have the same length; when the solver     *)
(* stops by the step size in its k-th iteration (the k-th write to img)    *)
(* that length is k - 1 in the class and k in the function; when it runs   *)
(* all iterations the length is max_iter.                                  *)
(***************************************************************************)
C4_TraceLengths ==
    pc = "done" =>
        /\ Len(ret.fnorm) = Len(ret.cost)
        /\ Len(ret.tnorm) = Len(ret.cost)
        /\ hist.stop \in {"step", "max"}
        /\ hist.stop = "step" =>
              Len(ret.cost) = IF variant = "class" THEN hist.writes - 1 ELSE hist.writes
        /\ hist.stop = "max" => (Len(ret.cost) = max_iter /\ hist.writes = max_iter)
        /\ ret.img = img

C4_Witness ==
    /\ pc = "done"
    /\ variant = "class"
    /\ hist.stop = "step"
    /\ hist.writes = 3
    /\ Len(ret.cost) = 2
    /\ ret.img.ver = 3

(***************************************************************************)
(* C5: for an image a of F >= 2 frames, with nd[k] the normalised          *)
(* difference of frames k+1 and k, the temporal gradient is nd[1] at the   *)
(* first frame, nd[k] - nd[k-1] at an inner frame k and -nd[F-1] at the    *)
(* last frame (frames counted from 1).                                     *)
(***************************************************************************)
C5_TemporalGradient ==
    tv.pc = "done" =>
        LET a == tv.img
            F == Len(a)
            nd(k) == Normalize(a[k + 1] - a[k])
        IN  /\ Len(tv.out) = F
            /\ tv.out[1] = nd(1)
            /\ \A k \in 2..(F - 1) : tv.out[k] = nd(k) - nd(k - 1)
            /\ tv.out[F] = -nd(F - 1)

C5_Witness ==
    /\ tv.pc = "done"
    /\ tv.fn = "temporal_tv_update"
    /\ tv.img = <<0, 1, 0>>
    /\ tv.out = <<1, -2, 1>>

(***************************************************************************)
(* C6 as stated: in the first iteration the direction passed to the line   *)
(* search, and applied to the image, is the combined gradient itself.      *)
(***************************************************************************)
C6_FirstDirectionIsGradient ==
    /\ (iter = 0 /\ pc \in {"ls", "update"}) => ls.dir = hist.g
    /\ (iter = 0 /\ pc = "check") => hist.applied = hist.g

(***************************************************************************)
(* C7 as stated: in every later iteration beta is <g, g> / (<g_prev,       *)
(* g_prev> + eps) with g_prev the combined gradient of the iteration       *)
(* before, and the direction is g + beta * p_prev with p_prev the          *)
(* direction of the iteration before.                                      *)
(***************************************************************************)
C7_FletcherReeves ==
    (iter > 0 /\ pc \in {"cost", "call", "ls", "update", "check"}) =>
        /\ hist.beta = Beta(Vdot(hist.g), Vdot(hist.g_prev))
        /\ hist.p = Axpy(hist.g, Beta(Vdot(hist.g), Vdot(hist.g_prev)), hist.p_prev)

(***************************************************************************)
(* C8: img is written by the update after the line search and by nothing   *)
(* else, once per iteration; a candidate of the line search is built from  *)
(* img as it is; the direction applied is the one the search was given.    *)
(***************************************************************************)
C8_ImageWrittenOncePerIteration ==
    /\ [](/\ hist.writes = IF pc \in {"check", "ret", "done"} THEN iter + 1 ELSE iter
          /\ pc = "check" => hist.applied = hist.searched
          /\ (pc = "ls" /\ ls.evals > 0) => ls.img_new.of = img)
    /\ [][img' # img => (pc = "update" /\ pc' = "check")]_vars

C8_Witness ==
    /\ pc = "check"
    /\ iter = 1
    /\ img.ver = 2
    /\ hist.writes = 2
    /\ ~IsZeroVec(hist.applied)

(***************************************************************************)
(* C9: a line search that ends through the bracketing branch returns the   *)
(* step of the last candidate whose cost was below the running reference;  *)
(* that cost is below the reference the caller passed.  Once the flag is   *)
(* set it stays set and the step is never multiplied by b again.           *)
(***************************************************************************)
C9_BracketReturnsImprovingStep ==
    /\ [](ls.broke => /\ ls.flag
                      /\ ls.step = ls.best.step
                      /\ ls.best.cost < ls.ref
                      /\ ls.best.cost = ls.cost_old)
    /\ [][(pc = "ls" /\ ls.flag) => (ls'.flag /\ ls'.step.eb = ls.step.eb)]_vars

C9_Witness ==
    /\ pc = "update"
    /\ ls.broke
    /\ ls.step.eb > ls.step0.eb
    /\ ls.step.ea > ls.step0.ea

(***************************************************************************)
(* C10: a line search starts from the step size the iteration before       *)
(* accepted and returns at least 0.8^15 times the step it started from;    *)
(* with the initial step 2 the step accepted by the first and by the       *)
(* second iteration is at least 2 * 0.8^30, and the solver does not stop   *)
(* by the step size before its third iteration.                            *)
(***************************************************************************)
C10_NoStopBeforeThirdIteration ==
    /\ [](/\ pc = "ls" => ls.step0 = step_size
          /\ pc = "update" =>
                ~StepLt(step_size, [ea |-> ls.step0.ea, eb |-> ls.step0.eb + LsMaxIter])
          /\ (pc \in {"update", "check"} /\ iter <= 1) =>
                ~StepLt(step_size, [ea |-> 0, eb |-> (iter + 1) * LsMaxIter])
          /\ hist.stop = "step" => hist.writes >= 3)
    /\ [][step_size' # step_size => (pc = "ls" /\ pc' = "update" /\ step_size' = ls.step)]_vars

C10_Witness ==
    /\ pc = "check"
    /\ iter = 1
    /\ step_size = [ea |-> 0, eb |-> 2 * LsMaxIter]
    /\ ~StepBelowClass(step_size)
    /\ ~StepBelowFunc(step_size)

====
